---- MODULE Spec2Model ----
(***************************************************************************)
(* Bin Day Brain: the collection-schedule derivation, the cache lifecycle  *)
(* and the weather step of the web client (web-app/app.js), with the       *)
(* schedule derivation and the weather step of the Android client          *)
(* (android-app/lib/main.dart) beside them.                                *)
(*                                                                         *)
(* Time.  An instant is a whole number of hours since 1970-01-01T00:00Z.   *)
(* A calendar day is a whole number of days since 1970-01-01.  The device  *)
(* clock runs in the zone the clients are written for, Australia/Sydney    *)
(* (the zone the weather request names and the "+11:00" suffix of the web  *)
(* client's date strings assumes): UTC+11 in summer, UTC+10 in winter.     *)
(***************************************************************************)
EXTENDS Integers, Sequences, FiniteSets, TLC

VARIABLES
    \* the environment
    now,              \* the device clock: an instant (hours since the epoch)
    collectionDay,    \* collection_day of the tracked properties, 1..7
    service,          \* what the two services may answer with: the days ahead
                      \* of explicit collection dates, the forecast readings
    device,           \* the client this behaviour runs: "web" or "android"
    \* localStorage of the web client
    lsConfig,         \* binDayBrain_config
    lsCache,          \* binDayBrain_cache
    \* the web page (app.js module state and the DOM it writes)
    page,             \* "closed", or "open" once init has run
    config,           \* let config
    cache,            \* let cache
    selectedPropertyId,
    screen,           \* which of setup-screen / dashboard-screen is not hidden
    completeSetupBtnDisabled,
    refreshBtnDisabled,
    statusLabel,      \* statusLabel.textContent
    cards,            \* the three .bin-card elements
    alerts,           \* the alerts in alertsContainer
    requests,         \* schedule fetches refreshData is awaiting
    weatherRequests,  \* forecast fetches loadWeather is awaiting, each under
                      \* the number of the schedule fetch that led to it
    nextId,           \* number of the next schedule fetch of this page
    \* the Android client: SharedPreferences and _DashboardScreenState
    prefsPropertyId,  \* prefs 'property_id', 0 when unset
    droidOpen,        \* the dashboard is mounted
    droidData,        \* _collectionData
    droidStatus,      \* _status
    droidAlerts,      \* _alerts
    droidIsRefreshing,\* _isRefreshing
    droidRequests,    \* schedule requests _loadData is awaiting
    droidWeather,     \* forecast requests _loadWeather is awaiting
    \* history
    refreshed,        \* a successful refresh was handled since init
    webPrev,          \* collections the web client resolved a week earlier
    droidPrev,        \* collections the Android client resolved a week earlier
    lastReading,      \* the wind and rain readings the last forecast handled
                      \* carried for the requested day, <<>> when none was read
    refreshLog,       \* the numbers of the schedule fetch whose answer was
                      \* stored last and of the latest fetch that succeeded
    \* the setup wizard of the web page
    wizard,           \* inputs, lists and pending lookups of the setup screen
    \* the CORS proxy
    proxy             \* the request the worker handled last and its outcome

envVars == <<now, collectionDay, service, device>>
storeVars == <<lsConfig, lsCache>>
pageVars == <<page, config, cache, selectedPropertyId, screen,
              completeSetupBtnDisabled, refreshBtnDisabled, statusLabel, cards,
              alerts, requests, weatherRequests, nextId, refreshed>>
droidVars == <<prefsPropertyId, droidOpen, droidData, droidStatus, droidAlerts, droidIsRefreshing,
               droidRequests, droidWeather>>
histVars == <<webPrev, droidPrev, lastReading, refreshLog>>
sideVars == <<wizard, proxy>>

vars == <<envVars, storeVars, pageVars, droidVars, histVars, sideVars>>

-----------------------------------------------------------------------------
(* Integer helpers: JavaScript Math.ceil, Dart Duration.inDays (truncating) *)

\* Math.ceil(a / b) for b > 0 and any integer a
CeilDiv(a, b) == IF a >= 0 THEN (a + b - 1) \div b ELSE -((-a) \div b)

\* a ~/ b of Dart (truncation towards zero) for b > 0
TruncDiv(a, b) == IF a >= 0 THEN a \div b ELSE -((-a) \div b)

-----------------------------------------------------------------------------
(* The Gregorian calendar and the Australia/Sydney zone behind Date and    *)
(* DateTime.                                                               *)

Years == 2025..2029

IsLeap(y) == (y % 4 = 0 /\ y % 100 # 0) \/ y % 400 = 0

LeapsBefore(y) == ((y - 1) \div 4) - ((y - 1) \div 100) + ((y - 1) \div 400)

\* the day number of 1 January of each year
NewYear == [y \in 2025..2030 |->
              365 * (y - 1970) + LeapsBefore(y) - LeapsBefore(1970)]

Jan1(y) == NewYear[y]

\* getFullYear() / DateTime.year of a calendar day (fewer than 365 leap days
\* have passed since 1970)
YearOf(day) ==
    LET y == 1970 + (day \div 365)
    IN  IF Jan1(y) <= day THEN y ELSE y - 1

\* DateTime.weekday: Monday = 1 .. Sunday = 7 (1970-01-01 was a Thursday)
IsoWeekday(day) == ((day + 3) % 7) + 1

\* Date.getDay(): Sunday = 0 .. Saturday = 6
GetDay(day) == IsoWeekday(day) % 7

FirstSundayFrom(day) == day + ((7 - IsoWeekday(day)) % 7)

\* 1 April and 1 October of year y
Apr1(y) == Jan1(y) + 90 + (IF IsLeap(y) THEN 1 ELSE 0)
Oct1(y) == Jan1(y) + 273 + (IF IsLeap(y) THEN 1 ELSE 0)

\* Daylight saving ends at 03:00 AEDT on the first Sunday of April and starts
\* at 02:00 AEST on the first Sunday of October: both are 16:00Z on the Saturday.
DstEnd == [y \in Years |-> 24 * FirstSundayFrom(Apr1(y)) - 8]
DstStart == [y \in Years |-> 24 * FirstSundayFrom(Oct1(y)) - 8]

\* the zone's offset from UTC, in hours, at instant u
OffsetAt(u) ==
    LET y == YearOf((u + 11) \div 24)
    IN  IF u < DstEnd[y] \/ u >= DstStart[y] THEN 11 ELSE 10

\* the local wall clock at instant u, as hours since the local epoch
LocalOf(u) == u + OffsetAt(u)

\* the instant whose local wall clock reads w (w is never in a skipped hour here)
FromLocal(w) == IF OffsetAt(w - 11) = 11 THEN w - 11 ELSE w - 10

\* local midnight of each calendar day of Years
MidnightOf == [day \in NewYear[2025]..(NewYear[2030] - 1) |-> FromLocal(24 * day)]

\* local midnight of a calendar day: setHours(0,0,0,0), DateTime(y, m, d)
Midnight(day) == MidnightOf[day]

\* the local calendar day and hour of instant u
LocalDay(u) ==
    LET d == (u + 11) \div 24
    IN  IF u >= MidnightOf[d] THEN d ELSE d - 1
LocalHour(u) == LocalOf(u) % 24

-----------------------------------------------------------------------------
(* Date strings.  A date string is the calendar date and hour it spells and *)
(* the zone designator it ends with: "+11:00" (the schedule service's form, *)
(* which the web fallback imitates), "local" (no designator: local time),   *)
(* "date" (a calendar date alone, "2026-03-04"), or "absent" for an entry   *)
(* that carries no next.date.                                               *)

DateStr(day, hour, zone) == [day |-> day, hour |-> hour, zone |-> zone]

NoDate == DateStr(0, 0, "absent")

\* new Date(str): the instant the string denotes.  A string with a zone
\* designator is that instant, a date alone is midnight UTC, a date and time
\* without designator is local time.
ParseDate(str) ==
    IF str.zone = "+11:00" THEN 24 * str.day + str.hour - 11
    ELSE IF str.zone = "date" THEN 24 * str.day
    ELSE FromLocal(24 * str.day + str.hour)

\* DateTime.parse(str): a UTC DateTime when the string carries a zone
\* designator, else a local DateTime of the wall clock the string spells
DateTime_parse(str) ==
    IF str.zone = "+11:00"
    THEN [at |-> 24 * str.day + str.hour - 11, isUtc |-> TRUE]
    ELSE [at |-> FromLocal(24 * str.day + str.hour), isUtc |-> FALSE]

\* the calendar day of a DateTime's own year, month and day fields
DateTimeDay(dt) == IF dt.isUtc THEN dt.at \div 24 ELSE LocalDay(dt.at)

\* date.toISOString().split('T')[0]: the UTC calendar date of an instant
ToISODate(u) == u \div 24

\* DateTime.toIso8601String() of a local DateTime: its local wall clock
toIso8601String(u) == DateStr(LocalDay(u), LocalHour(u), "local")

Entry(type, str) == [type |-> type, next |-> str]

-----------------------------------------------------------------------------
(* Schedule Resolver, web client                                            *)

\* getISOWeek(date): Thursday of the date's week, counted from 1 January of
\* the Thursday's year in elapsed 24-hour days, rounded up to weeks
getISOWeek(date) ==
    LET d         == LocalDay(date)
        thursday  == d + 4 - (IF GetDay(d) = 0 THEN 7 ELSE GetDay(d))
        yearStart == Midnight(Jan1(YearOf(thursday)))
    IN  CeilDiv((Midnight(thursday) - yearStart) + 24, 24 * 7)

\* the fallback without its Landfill entry
calculateCollections_NoLandfill(cd, clock) ==
    LET today             == LocalDay(clock)
        jsDay             == IF cd = 7 THEN 0 ELSE cd
        diff              == jsDay - GetDay(today)
        daysAhead         == IF diff < 0 THEN diff + 7 ELSE diff
        nextCollection    == Midnight(today + daysAhead)
        weekNum           == getISOWeek(nextCollection)
        isRecyclingWeek   == (weekNum % 2 = 0)
        nextCollectionStr == DateStr(ToISODate(nextCollection), 6, "+11:00")
        weekLater         == Midnight(today + daysAhead + 7)
        weekLaterStr      == DateStr(ToISODate(weekLater), 6, "+11:00")
    IN  << Entry("FOGO", nextCollectionStr),
           Entry("Recycling", IF isRecyclingWeek THEN nextCollectionStr ELSE weekLaterStr) >>

\* calculateCollections(collectionDay), run when the device clock reads `clock`
calculateCollections(cd, clock) ==
    LET today             == LocalDay(clock)
        jsDay             == IF cd = 7 THEN 0 ELSE cd
        diff              == jsDay - GetDay(today)
        daysAhead         == IF diff < 0 THEN diff + 7 ELSE diff
        nextCollection    == Midnight(today + daysAhead)
        weekNum           == getISOWeek(nextCollection)
        isRecyclingWeek   == (weekNum % 2 = 0)
        nextCollectionStr == DateStr(ToISODate(nextCollection), 6, "+11:00")
        weekLater         == Midnight(today + daysAhead + 7)
        weekLaterStr      == DateStr(ToISODate(weekLater), 6, "+11:00")
    IN  << Entry("FOGO", nextCollectionStr),
           Entry("Recycling", IF isRecyclingWeek THEN nextCollectionStr ELSE weekLaterStr),
           Entry("Landfill", IF isRecyclingWeek THEN weekLaterStr ELSE nextCollectionStr) >>

-----------------------------------------------------------------------------
(* Schedule Resolver, Android client                                        *)

\* _getIsoWeek(date)
_getIsoWeek(date) ==
    LET d         == LocalDay(date)
        dayOfYear == TruncDiv(date - Midnight(Jan1(YearOf(d))), 24)
    IN  (dayOfYear - IsoWeekday(d) + 10) \div 7

\* _calculateCollections(collectionDay), run when the device clock reads `clock`
_calculateCollections(cd, clock) ==
    LET todayStart      == Midnight(LocalDay(clock))
        diff            == cd - IsoWeekday(LocalDay(clock))
        daysAhead       == IF diff < 0 THEN diff + 7 ELSE diff
        nextCollection  == todayStart + 24 * daysAhead
        weekNum         == _getIsoWeek(nextCollection)
        isRecyclingWeek == (weekNum % 2 = 0)
        nextStr         == toIso8601String(nextCollection)
        weekLater       == nextCollection + 24 * 7
        weekLaterStr    == toIso8601String(weekLater)
    IN  << Entry("FOGO", nextStr),
           Entry("Recycling", IF isRecyclingWeek THEN nextStr ELSE weekLaterStr),
           Entry("Landfill", IF isRecyclingWeek THEN weekLaterStr ELSE nextStr) >>

-----------------------------------------------------------------------------
(* Dashboard cards and the weather step, web client                         *)

Streams == {"fogo", "recycling", "landfill"}

\* the characters of the stream names the service uses and of the words
\* updateCards looks for
Spell(name) ==
    CASE name = "FOGO" -> <<"F", "O", "G", "O">>
      [] name = "Recycling" -> <<"R", "e", "c", "y", "c", "l", "i", "n", "g">>
      [] name = "Landfill" -> <<"L", "a", "n", "d", "f", "i", "l", "l">>
      [] name = "Landfill Waste" -> <<"L", "a", "n", "d", "f", "i", "l", "l", " ", "W", "a", "s", "t", "e">>
      [] name = "Hard Rubbish" -> <<"H", "a", "r", "d", " ", "R", "u", "b", "b", "i", "s", "h">>
      [] name = "Organic Waste" -> <<"O", "r", "g", "a", "n", "i", "c", " ", "W", "a", "s", "t", "e">>
      [] name = "RECYCLING" -> <<"R", "E", "C", "Y", "C", "L", "I", "N", "G">>
      [] name = "Garbage" -> <<"G", "a", "r", "b", "a", "g", "e">>
      [] name = "fogo" -> <<"f", "o", "g", "o">>
      [] name = "organic" -> <<"o", "r", "g", "a", "n", "i", "c">>
      [] name = "recycling" -> <<"r", "e", "c", "y", "c", "l", "i", "n", "g">>
      [] name = "landfill" -> <<"l", "a", "n", "d", "f", "i", "l", "l">>
      [] name = "garbage" -> <<"g", "a", "r", "b", "a", "g", "e">>
      [] name = "waste" -> <<"w", "a", "s", "t", "e">>
      [] OTHER -> <<>>

UpperCase == <<"A", "B", "C", "D", "E", "F", "G", "H", "I", "J", "K", "L", "M",
               "N", "O", "P", "Q", "R", "S", "T", "U", "V", "W", "X", "Y", "Z">>
LowerCase == <<"a", "b", "c", "d", "e", "f", "g", "h", "i", "j", "k", "l", "m",
               "n", "o", "p", "q", "r", "s", "t", "u", "v", "w", "x", "y", "z">>

\* str.toLowerCase(), character by character
toLowerCase(str) ==
    [i \in 1..Len(str) |->
        IF \E k \in 1..Len(UpperCase) : UpperCase[k] = str[i]
        THEN LowerCase[CHOOSE k \in 1..Len(UpperCase) : UpperCase[k] = str[i]]
        ELSE str[i]]

\* str.includes(word) / str.contains(word): word occurs in str
includes(str, word) ==
    \E i \in 1..(Len(str) - Len(word) + 1) :
        \A j \in 1..Len(word) : str[i + j - 1] = word[j]

\* the card selection with the landfill words tried first
CardOf_LandfillFirst(type) ==
    LET t == toLowerCase(Spell(type))
    IN  IF \/ includes(t, Spell("landfill"))
           \/ includes(t, Spell("garbage"))
           \/ includes(t, Spell("waste"))
        THEN "landfill"
        ELSE IF includes(t, Spell("fogo")) \/ includes(t, Spell("organic")) THEN "fogo"
        ELSE IF includes(t, Spell("recycling")) THEN "recycling"
        ELSE "none"

\* the card an entry's type selects in updateCards, "none" when it selects none
CardOf(type) ==
    LET t == toLowerCase(Spell(type))
    IN  IF includes(t, Spell("fogo")) \/ includes(t, Spell("organic")) THEN "fogo"
        ELSE IF includes(t, Spell("recycling")) THEN "recycling"
        ELSE IF \/ includes(t, Spell("landfill"))
                \/ includes(t, Spell("garbage"))
                \/ includes(t, Spell("waste"))
             THEN "landfill"
        ELSE "none"

\* the names under which the schedule service lists a collection
TypeNames == {"FOGO", "Recycling", "Landfill", "Landfill Waste", "Hard Rubbish",
              "Organic Waste", "RECYCLING", "Garbage"}

\* CardOf, worked out once for each name
CardOfName == [type \in TypeNames |-> CardOf(type)]

\* a card as index.html ships it: no days count, no collection date
BlankCard == [shown |-> FALSE, days |-> 0, date |-> 0]

BlankCards == [s \in Streams |-> BlankCard]

\* the body of updateCards's forEach for one entry: .days-count gets diffDays,
\* .collection-date gets the local calendar date, formatted
UpdateCard(cs, collection, clock) ==
    LET card == CardOfName[collection.type]
        date == Midnight(LocalDay(ParseDate(collection.next)))
        today == Midnight(LocalDay(clock))
        diffDays == CeilDiv(date - today, 24)
    IN  IF card # "none" /\ collection.next.zone # "absent"
        THEN [cs EXCEPT ![card] =
                 [shown |-> TRUE, days |-> diffDays, date |-> LocalDay(date)]]
        ELSE cs

RECURSIVE updateCardsFrom(_, _, _, _)
updateCardsFrom(cs, collections, i, clock) ==
    IF i > Len(collections) THEN cs
    ELSE updateCardsFrom(UpdateCard(cs, collections[i], clock), collections, i + 1, clock)

\* updateCards(collections), run on the cards `cs` as they stand
updateCards(cs, collections, clock) == updateCardsFrom(cs, collections, 1, clock)

\* the dates loadWeather reads back from the cards' .collection-date texts
ShownDates(cs) == {cs[s].date : s \in {c \in Streams : cs[c].shown}}

MinOf(S) == CHOOSE x \in S : \A y \in S : x <= y

\* loadWeather up to its fetch: "skip" when it returns early, else the
\* daysAhead it requests (forecast_days = daysAhead + 1)
loadWeather(cs, clock) ==
    IF ShownDates(cs) = {} THEN [req |-> FALSE, daysAhead |-> 0]
    ELSE LET nearestDate == Midnight(MinOf(ShownDates(cs)))
             daysAhead   == CeilDiv(nearestDate - clock, 24)
         IN  IF daysAhead < 0 \/ daysAhead > 7
             THEN [req |-> FALSE, daysAhead |-> daysAhead]
             ELSE [req |-> TRUE, daysAhead |-> daysAhead]

\* the alert thresholds of loadWeather (km/h, mm); readings are in tenths
WindAlertKmh == 40
RainAlertMm == 5

\* the alerts with the thresholds excluded (> for >=)
WeatherAlerts_Exclusive(wind, rain) ==
    (IF wind > WindAlertKmh * 10 THEN {"Wind"} ELSE {})
        \cup (IF rain > RainAlertMm * 10 THEN {"Rain"} ELSE {})

\* the alerts loadWeather appends for one day's wind and rain readings
WeatherAlerts(wind, rain) ==
    (IF wind >= WindAlertKmh * 10 THEN {"Wind"} ELSE {})
        \cup (IF rain >= RainAlertMm * 10 THEN {"Rain"} ELSE {})

-----------------------------------------------------------------------------
(* Bounds of the model                                                      *)

\* fetches one page issues before it is closed
MaxRequests == 2
\* days the clock may advance within one behaviour of Spec
MaxDaysPassed == 1
\* the property identifiers the setup wizard offers are 1..MaxProperty
MaxProperty == 2

Properties == 1..MaxProperty

-----------------------------------------------------------------------------
(* JSON values: the schedule service's answers and the two stored records   *)

\* JSON null, and a parsed body: the fields refreshData reads, the property
\* the body describes, and cached_at (0 until saveCache stamps it)
Body(kind, property, collections, collection_day) ==
    [kind |-> kind, property |-> property, collections |-> collections,
     collection_day |-> collection_day, cached_at |-> 0]

Null == Body("null", 0, <<>>, 0)

\* what the proxy answers with a non-OK status: { error: ... }
ErrorBody == Body("error", 0, <<>>, 0)

\* an explicit collections list of the service, nearest date k days ahead
ExplicitCollections(clock, k) ==
    LET d == LocalDay(clock) + k
    IN  << Entry("Landfill Waste", DateStr(d + 7, 6, "+11:00")),
           Entry("FOGO", DateStr(d, 6, "+11:00")),
           Entry("Recycling", DateStr(d, 6, "+11:00")) >>

\* an explicit list that lacks the Recycling stream, dates given alone
PartialCollections(clock, k) ==
    LET d == LocalDay(clock) + k
    IN  << Entry("Landfill Waste", DateStr(d + 2, 0, "date")),
           Entry("FOGO", DateStr(d, 0, "date")) >>

\* an explicit list under other names the service may use, one of them of
\* no stream
OtherNamesCollections(clock, k) ==
    LET d == LocalDay(clock) + k
    IN  << Entry("Hard Rubbish", DateStr(d + 3, 6, "+11:00")),
           Entry("Organic Waste", DateStr(d, 6, "+11:00")),
           Entry("RECYCLING", DateStr(d + 7, 6, "+11:00")),
           Entry("Garbage", DateStr(d, 6, "+11:00")) >>

\* an explicit list that names a stream more than once, dates given alone:
\* Organic twice, and Recycling twice with no date on its last entry
RepeatedCollections(clock, k) ==
    LET d == LocalDay(clock) + k
    IN  << Entry("FOGO", DateStr(d, 0, "date")),
           Entry("Recycling", DateStr(d, 0, "date")),
           Entry("Landfill", DateStr(d + 7, 0, "date")),
           Entry("Organic Waste", DateStr(d + 1, 0, "date")),
           Entry("RECYCLING", NoDate) >>

\* the bodies properties/<id>.json may hold when the service answers 200
ScheduleBodies(property, clock, cd, svc) ==
    { Body("schedule", property, <<>>, cd),        \* collection_day only
      Body("schedule", property, <<>>, 0) }        \* neither source
    \cup { Body("schedule", property, ExplicitCollections(clock, k), cd) :
             k \in svc.ahead }
    \cup { Body("schedule", property, PartialCollections(clock, k), cd) :
             k \in svc.other }
    \cup { Body("schedule", property, OtherNamesCollections(clock, k), cd) :
             k \in svc.other }
    \cup { Body("schedule", property, RepeatedCollections(clock, k), cd) :
             k \in svc.repeated }

\* what fetch() can come to: a rejection, a non-OK response, an OK response
Response(kind, body) == [kind |-> kind, body |-> body]

ScheduleResponses(property, clock, cd, svc) ==
    { Response("network_error", Null), Response("http_error", ErrorBody) }
    \cup { Response("ok", b) : b \in ScheduleBodies(property, clock, cd, svc) }

NoConfig == [property_id |-> 0, setup_completed |-> FALSE]

Config(p) == [property_id |-> p, setup_completed |-> TRUE]

-----------------------------------------------------------------------------
(* Web client: the setup wizard                                             *)

\* the suburbs, streets and properties the service knows: streets 1 and 2 lie
\* in suburb 1 and street 3 in suburb 2; property p lies in street p, and a
\* street beyond the properties has none
Localities == {1, 2}

Streets == {1, 2, 3}

StreetsOf(l) == IF l = 1 THEN {1, 2} ELSE {3}

PropertiesOf(s) == IF s \in Properties THEN {s} ELSE {}

\* the setup screen as the page loads it: nothing selected, the `streets` and
\* `properties` lists empty, the street and property inputs disabled
WizardFresh ==
    [locality |-> 0, street |-> 0, streets |-> {}, properties |-> {},
     streetDisabled |-> TRUE, propertyDisabled |-> TRUE, lookups |-> {}]

\* the setup screen with the lookups left out: every property is offered
WizardAllOffered ==
    [WizardFresh EXCEPT !.properties = Properties, !.propertyDisabled = FALSE]

-----------------------------------------------------------------------------
(* The CORS proxy (Cloudflare Worker)                                       *)

\* the characters of the pieces request paths are made of
PathChars(piece) ==
    CASE piece = "/localities"    -> <<"/", "l", "o", "c", "a", "l", "i", "t", "i", "e", "s">>
      [] piece = "/streets"       -> <<"/", "s", "t", "r", "e", "e", "t", "s">>
      [] piece = "/properties"    -> <<"/", "p", "r", "o", "p", "e", "r", "t", "i", "e", "s">>
      [] piece = "/materials"     -> <<"/", "m", "a", "t", "e", "r", "i", "a", "l", "s">>
      [] piece = "/events"        -> <<"/", "e", "v", "e", "n", "t", "s">>
      [] piece = "/admin"         -> <<"/", "a", "d", "m", "i", "n">>
      [] piece = "/event"         -> <<"/", "e", "v", "e", "n", "t">>
      [] piece = ".json"          -> <<".", "j", "s", "o", "n">>
      [] piece = "/7"             -> <<"/", "7">>
      [] piece = "/17"            -> <<"/", "1", "7">>
      [] piece = "/x"             -> <<"/", "x">>
      [] piece = ".bak"           -> <<".", "b", "a", "k">>
      [] piece = "/history"       -> <<"/", "h", "i", "s", "t", "o", "r", "y">>
      [] piece = "/"              -> <<"/">>

Json == PathChars(".json")

\* ALLOWED_PATHS
ALLOWED_PATHS ==
    << PathChars("/localities") \o Json,
       PathChars("/streets") \o Json,
       PathChars("/properties") \o Json,
       PathChars("/materials") \o Json,
       PathChars("/events") \o Json >>

\* String.prototype.startsWith
startsWith(str, prefix) ==
    /\ Len(prefix) <= Len(str)
    /\ SubSeq(str, 1, Len(prefix)) = prefix

\* the first position at which `pattern` occurs in `str`, 0 when it does not
IndexOf(str, pattern) ==
    LET at == {i \in 1..(Len(str) - Len(pattern) + 1) :
                 SubSeq(str, i, i + Len(pattern) - 1) = pattern}
    IN  IF at = {} THEN 0 ELSE CHOOSE i \in at : \A j \in at : i <= j

\* String.prototype.replace with a string pattern: the first occurrence
replace(str, pattern, by) ==
    LET i == IndexOf(str, pattern)
    IN  IF i = 0 THEN str
        ELSE SubSeq(str, 1, i - 1) \o by \o SubSeq(str, i + Len(pattern), Len(str))

Digits == {"0", "1", "2", "3", "4", "5", "6", "7", "8", "9"}

\* path.match(/^\/properties\/\d+\.json$/)
matchPropertyPath(path) ==
    LET head == PathChars("/properties") \o PathChars("/")
    IN  /\ Len(path) > Len(head) + Len(Json)
        /\ startsWith(path, head)
        /\ SubSeq(path, Len(path) - Len(Json) + 1, Len(path)) = Json
        /\ \A i \in (Len(head) + 1)..(Len(path) - Len(Json)) : path[i] \in Digits

\* isAllowed
isAllowed(path) ==
    \/ \E i \in 1..Len(ALLOWED_PATHS) :
          startsWith(path, replace(ALLOWED_PATHS[i], Json, <<>>))
    \/ matchPropertyPath(path)

\* the worker before any request
ProxyIdle == [method |-> "", path |-> <<>>, status |-> 0, forwarded |-> FALSE,
              error |-> ""]

\* what the fetch of the upstream API can come to: a response with its status,
\* or an exception
UpstreamOutcomes == {"200", "404", "throws"}

\* fetch(request), the upstream fetch coming to `upstream`
fetch(request, upstream) ==
    /\ proxy' =
         IF request.method = "OPTIONS"
         THEN [method |-> request.method, path |-> request.path,
               status |-> 200, forwarded |-> FALSE, error |-> ""]
         ELSE IF ~isAllowed(request.path)
         THEN [method |-> request.method, path |-> request.path,
               status |-> 403, forwarded |-> FALSE, error |-> "Not allowed"]
         ELSE IF upstream = "throws"
         THEN [method |-> request.method, path |-> request.path,
               status |-> 500, forwarded |-> TRUE, error |-> "Proxy error"]
         ELSE [method |-> request.method, path |-> request.path,
               status |-> IF upstream = "200" THEN 200 ELSE 404,
               forwarded |-> TRUE, error |-> ""]
    /\ UNCHANGED <<envVars, storeVars, pageVars, droidVars, histVars, wizard>>

\* the requests made of the worker
RequestPaths ==
    { PathChars(head) \o tail :
        head \in {"/localities", "/streets", "/properties", "/materials",
                  "/events", "/admin", "/event"},
        tail \in { <<>>, Json, PathChars("/7") \o Json, PathChars("/17") \o Json,
                   PathChars("/x") \o Json, Json \o PathChars(".bak"),
                   PathChars("/7") \o Json \o PathChars("/history") } }

Requests ==
    { [method |-> m, path |-> path] :
        m \in {"GET", "POST", "OPTIONS"}, path \in RequestPaths }

-----------------------------------------------------------------------------
(* Web client: storage and API helpers                                      *)

\* apiGet without its response.ok test: a non-OK body is parsed and returned
apiGet_NoOkTest(response) ==
    IF response.kind = "network_error" THEN Null ELSE response.body

\* the body of apiGet's try block: the parsed body of an OK response, null
\* for anything else (the throw is caught and null returned)
apiGet(response) ==
    IF response.kind = "ok" THEN response.body ELSE Null

\* if (data): every parsed object is truthy, null is not
Truthy(data) == data.kind # "null"

\* the fallback both refreshData and loadCachedData apply before using
\* data.collections
ApplyFallback(data, clock) ==
    IF Len(data.collections) = 0 /\ data.collection_day # 0
    THEN [data EXCEPT !.collections = calculateCollections(data.collection_day, clock)]
    ELSE data

\* saveCache(data): the record stored under binDayBrain_cache
saveCache(data, clock) == [data EXCEPT !.cached_at = clock]

\* loadCachedData without its updateCards call
loadCachedData_NoUpdate(stored, cards0, clock) == cards0

\* loadCachedData: the cards after it ran on the stored cache record
loadCachedData(stored, cards0, clock) ==
    IF Truthy(stored) /\ Len(ApplyFallback(stored, clock).collections) > 0
    THEN updateCards(cards0, ApplyFallback(stored, clock).collections, clock)
    ELSE cards0

-----------------------------------------------------------------------------
(* Web client: the page                                                     *)

\* Monday 2026-03-02, 09:00 local: the clock at which behaviours of Spec start
SessionEpoch == Midnight(Jan1(2026) + 60) + 9

\* refreshData(silent) from its entry to its await: nothing without a
\* property_id, else the status and button updates of a loud refresh and the
\* fetch of properties/<property_id>.json.  `st` holds the four items it may
\* write; origin and shown (the cards at the time of the launch fetch, blank for
\* any other fetch) are history.
refreshDataStart(cfg, silent, origin, shown, st) ==
    IF cfg.property_id = 0 THEN st
    ELSE [statusLabel        |-> IF silent THEN st.statusLabel ELSE "Refreshing...",
          refreshBtnDisabled |-> IF silent THEN st.refreshBtnDisabled ELSE TRUE,
          requests           |-> st.requests \cup
                                   {[id |-> st.nextId, silent |-> silent,
                                     property |-> cfg.property_id,
                                     origin |-> origin,
                                     shown |-> IF origin = "launch" THEN shown
                                               ELSE BlankCards]},
          nextId             |-> st.nextId + 1]

PageSt == [statusLabel |-> statusLabel, refreshBtnDisabled |-> refreshBtnDisabled,
           requests |-> requests, nextId |-> nextId]

\* init() showing the dashboard whatever loadConfig found
init_NoSetupTest ==
    /\ device = "web"
    /\ page = "closed"
    /\ page' = "open"
    /\ config' = lsConfig
    /\ selectedPropertyId' = 0
    /\ completeSetupBtnDisabled' = TRUE
    /\ alerts' = {}
    /\ weatherRequests' = {}
    /\ refreshed' = FALSE
    /\ IF TRUE
       THEN LET shown == loadCachedData(lsCache, BlankCards, now)
                st == refreshDataStart(lsConfig, TRUE, "launch", shown,
                        [statusLabel |-> IF shown # BlankCards
                                         THEN "Using cached data" ELSE "",
                         refreshBtnDisabled |-> FALSE,
                         requests |-> {}, nextId |-> 1])
            IN  /\ screen' = "dashboard"
                /\ cache' = IF Truthy(lsCache) THEN ApplyFallback(lsCache, now) ELSE Null
                /\ cards' = shown
                /\ statusLabel' = st.statusLabel
                /\ refreshBtnDisabled' = st.refreshBtnDisabled
                /\ requests' = st.requests
                /\ nextId' = st.nextId
       ELSE /\ screen' = "setup"
            /\ cache' = Null
            /\ cards' = BlankCards
            /\ statusLabel' = ""
            /\ refreshBtnDisabled' = FALSE
            /\ requests' = {}
            /\ nextId' = 1
    /\ UNCHANGED <<envVars, sideVars, storeVars, droidVars, histVars>>

\* init(): loadConfig, then either the dashboard with the cached data shown
\* and a silent refresh started, or the setup screen
init ==
    /\ device = "web"
    /\ page = "closed"
    /\ page' = "open"
    /\ config' = lsConfig
    /\ selectedPropertyId' = 0
    /\ completeSetupBtnDisabled' = TRUE
    /\ alerts' = {}
    /\ weatherRequests' = {}
    /\ refreshed' = FALSE
    /\ IF lsConfig.setup_completed
       THEN LET shown == loadCachedData(lsCache, BlankCards, now)
                st == refreshDataStart(lsConfig, TRUE, "launch", shown,
                        [statusLabel |-> IF shown # BlankCards
                                         THEN "Using cached data" ELSE "",
                         refreshBtnDisabled |-> FALSE,
                         requests |-> {}, nextId |-> 1])
            IN  /\ screen' = "dashboard"
                /\ cache' = IF Truthy(lsCache) THEN ApplyFallback(lsCache, now) ELSE Null
                /\ cards' = shown
                /\ statusLabel' = st.statusLabel
                /\ refreshBtnDisabled' = st.refreshBtnDisabled
                /\ requests' = st.requests
                /\ nextId' = st.nextId
       ELSE /\ screen' = "setup"
            /\ cache' = Null
            /\ cards' = BlankCards
            /\ statusLabel' = ""
            /\ refreshBtnDisabled' = FALSE
            /\ requests' = {}
            /\ nextId' = 1
    /\ UNCHANGED <<envVars, sideVars, storeVars, droidVars, histVars>>

\* no schedule fetch of this page has been answered
NoRefreshLog == [stored |-> 0, latest |-> 0]

\* the tab is closed: the module state, the DOM and the pending fetches go
ClosePage ==
    /\ page' = "closed"
    /\ config' = NoConfig
    /\ cache' = Null
    /\ selectedPropertyId' = 0
    /\ screen' = "none"
    /\ completeSetupBtnDisabled' = TRUE
    /\ refreshBtnDisabled' = FALSE
    /\ statusLabel' = ""
    /\ cards' = BlankCards
    /\ alerts' = {}
    /\ requests' = {}
    /\ weatherRequests' = {}
    /\ nextId' = 1
    /\ refreshed' = FALSE
    /\ refreshLog' = NoRefreshLog

Close ==
    /\ page = "open"
    /\ ClosePage
    /\ lastReading' = <<>>
    /\ UNCHANGED <<envVars, sideVars, storeVars, droidVars, webPrev, droidPrev>>

\* onLocalitySelected(locality) up to its await: a click on an item of the
\* suburb dropdown
onLocalitySelected(l) ==
    /\ page = "open" /\ screen = "setup"
    /\ l \in Localities
    /\ wizard' = [wizard EXCEPT !.locality = l,
                                !.street = 0,
                                !.streetDisabled = TRUE,
                                !.propertyDisabled = TRUE,
                                !.lookups = @ \cup {[kind |-> "streets", of |-> l]}]
    /\ completeSetupBtnDisabled' = TRUE
    /\ selectedPropertyId' = 0
    /\ UNCHANGED <<envVars, proxy, storeVars, page, config, cache, screen,
                   refreshBtnDisabled, statusLabel, cards, alerts, requests,
                   weatherRequests, nextId, refreshed, droidVars, histVars>>

\* onStreetSelected(street) up to its await: a click on an item of the street
\* dropdown, which renders the `streets` list
onStreetSelected(s) ==
    /\ page = "open" /\ screen = "setup"
    /\ ~wizard.streetDisabled /\ s \in wizard.streets
    /\ wizard' = [wizard EXCEPT !.street = s,
                                !.propertyDisabled = TRUE,
                                !.lookups = @ \cup {[kind |-> "properties", of |-> s]}]
    /\ completeSetupBtnDisabled' = TRUE
    /\ selectedPropertyId' = 0
    /\ UNCHANGED <<envVars, proxy, storeVars, page, config, cache, screen,
                   refreshBtnDisabled, statusLabel, cards, alerts, requests,
                   weatherRequests, nextId, refreshed, droidVars, histVars>>

\* onLocalitySelected from the completion of its apiGet to its end
onLocalitySelectedResume(k, ok) ==
    IF ok
    THEN [wizard EXCEPT !.streets = StreetsOf(k.of), !.streetDisabled = FALSE,
                        !.lookups = @ \ {k}]
    ELSE [wizard EXCEPT !.lookups = @ \ {k}]

\* onStreetSelected from the completion of its apiGet to its end
onStreetSelectedResume(k, ok) ==
    IF ok
    THEN [wizard EXCEPT !.properties = PropertiesOf(k.of),
                        !.propertyDisabled = FALSE, !.lookups = @ \ {k}]
    ELSE [wizard EXCEPT !.lookups = @ \ {k}]

\* a lookup of the wizard completes, with the list asked for or with a failure
lookupResponse ==
    /\ page = "open"
    /\ \E k \in wizard.lookups, ok \in BOOLEAN :
          wizard' = IF k.kind = "streets" THEN onLocalitySelectedResume(k, ok)
                    ELSE onStreetSelectedResume(k, ok)
    /\ UNCHANGED <<envVars, proxy, storeVars, pageVars, droidVars, histVars>>

\* onPropertySelected(property): a click on an item of the property dropdown,
\* which renders the `properties` list
onPropertySelected(p) ==
    /\ page = "open" /\ screen = "setup"
    /\ ~wizard.propertyDisabled /\ p \in wizard.properties
    /\ selectedPropertyId' = p
    /\ completeSetupBtnDisabled' = FALSE
    /\ UNCHANGED <<envVars, sideVars, storeVars, page, config, cache, screen,
                   refreshBtnDisabled, statusLabel, cards, alerts, requests,
                   weatherRequests, nextId, refreshed, droidVars, histVars>>

\* completeSetup(): a click on complete-setup-btn
completeSetup ==
    /\ page = "open" /\ screen = "setup" /\ ~completeSetupBtnDisabled
    /\ nextId <= MaxRequests
    /\ IF selectedPropertyId = 0
       THEN UNCHANGED <<lsConfig, config, screen, statusLabel,
                        refreshBtnDisabled, requests, nextId>>
       ELSE LET saved == Config(selectedPropertyId)
                st == refreshDataStart(saved, TRUE, "setup", cards, PageSt)
            IN  /\ config' = saved
                /\ lsConfig' = saved
                /\ screen' = "dashboard"
                /\ statusLabel' = st.statusLabel
                /\ refreshBtnDisabled' = st.refreshBtnDisabled
                /\ requests' = st.requests
                /\ nextId' = st.nextId
    /\ UNCHANGED <<envVars, sideVars, lsCache, page, cache, selectedPropertyId,
                   completeSetupBtnDisabled, cards, alerts, weatherRequests,
                   refreshed, droidVars, histVars>>

\* a click on change-address-btn
changeAddress ==
    /\ page = "open" /\ screen = "dashboard"
    /\ screen' = "setup"
    /\ UNCHANGED <<envVars, sideVars, storeVars, page, config, cache, selectedPropertyId,
                   completeSetupBtnDisabled, refreshBtnDisabled, statusLabel,
                   cards, alerts, requests, weatherRequests, nextId, refreshed,
                   droidVars, histVars>>

\* a click on refresh-btn: refreshData(false) up to its await
refreshClick ==
    /\ page = "open" /\ screen = "dashboard" /\ ~refreshBtnDisabled
    /\ nextId <= MaxRequests
    /\ LET st == refreshDataStart(config, FALSE, "user", cards, PageSt)
       IN  /\ statusLabel' = st.statusLabel
           /\ refreshBtnDisabled' = st.refreshBtnDisabled
           /\ requests' = st.requests
           /\ nextId' = st.nextId
    /\ UNCHANGED <<envVars, sideVars, storeVars, page, config, cache, selectedPropertyId,
                   screen, completeSetupBtnDisabled, cards, alerts,
                   weatherRequests, refreshed, droidVars, histVars>>

\* refreshData from the completion of its fetch to its end, for the fetch r
\* and what the fetch came to
refreshDataResume(r, response) ==
    LET data == apiGet(response)
        resolved == ApplyFallback(data, now)
        shown == updateCards(cards, resolved.collections, now)
        weather == loadWeather(shown, now)
    IN  /\ IF Truthy(data)
           THEN /\ cache' = saveCache(resolved, now)
                /\ lsCache' = saveCache(resolved, now)
                /\ cards' = shown
                /\ statusLabel' = "Last updated"
                /\ refreshed' = TRUE
                /\ refreshLog' =
                      [stored |-> r.id,
                       latest |-> IF r.id > refreshLog.latest THEN r.id
                                  ELSE refreshLog.latest]
                /\ weatherRequests' =
                      IF weather.req
                      THEN weatherRequests \cup
                             {[id |-> r.id, daysAhead |-> weather.daysAhead]}
                      ELSE weatherRequests
           ELSE /\ statusLabel' = IF r.silent THEN statusLabel
                                  ELSE "Error refreshing. Using cached data."
                /\ UNCHANGED <<cache, lsCache, cards, refreshed, weatherRequests,
                               refreshLog>>
        /\ refreshBtnDisabled' = FALSE
        /\ requests' = requests \ {r}

\* the schedule fetch r completes
refreshResponse ==
    /\ page = "open"
    /\ \E r \in requests :
         \E response \in ScheduleResponses(r.property, now, collectionDay, service) :
            refreshDataResume(r, response)
    /\ UNCHANGED <<envVars, sideVars, lsConfig, page, config, selectedPropertyId, screen,
                   completeSetupBtnDisabled, alerts, nextId, droidVars,
                   webPrev, droidPrev, lastReading>>

-----------------------------------------------------------------------------
(* The weather service                                                      *)

\* readings are in tenths of km/h and tenths of mm: those just below and at
\* each alert threshold (39.9 and 40.0 km/h, 4.9 and 5.0 mm)
WindReadings == {WindAlertKmh * 10 - 1, WindAlertKmh * 10}
RainReadings == {RainAlertMm * 10 - 1, RainAlertMm * 10}

\* a daily array of n days: calm and dry but for the last day
Daily(n, reading) == [i \in 1..n |-> IF i = n THEN reading ELSE 0]

\* what the forecast fetch for forecast_days = n can come to
\* a rejected fetch, a body that is not JSON, a JSON body without `daily`, a
\* `daily` without its two arrays, or a forecast of n days
ForecastResponses(n, readings) ==
    { [kind |-> "network_error", daily |-> FALSE, arrays |-> FALSE,
       wind |-> <<>>, rain |-> <<>>],
      [kind |-> "malformed", daily |-> FALSE, arrays |-> FALSE,
       wind |-> <<>>, rain |-> <<>>],
      [kind |-> "ok", daily |-> FALSE, arrays |-> FALSE, wind |-> <<>>, rain |-> <<>>],
      [kind |-> "ok", daily |-> TRUE, arrays |-> FALSE, wind |-> <<>>, rain |-> <<>>] }
    \cup { [kind |-> "ok", daily |-> TRUE, arrays |-> TRUE,
             wind |-> Daily(n, x[1]), rain |-> Daily(n, x[2])] : x \in readings }

\* the try block reaches its alerts: the body parsed, `daily` is there and
\* indexing its arrays did not throw; anything else ends in the catch or
\* falls through `if (data.daily)`
ForecastRead(response) ==
    response.kind = "ok" /\ response.daily /\ response.arrays

\* loadWeather from the completion of its fetch to its end
loadWeatherResume(w, response) ==
    IF ForecastRead(response)
    THEN /\ alerts' = WeatherAlerts(response.wind[w.daysAhead + 1],
                                    response.rain[w.daysAhead + 1])
         /\ lastReading' = <<[wind |-> response.wind[w.daysAhead + 1],
                              rain |-> response.rain[w.daysAhead + 1]]>>
    ELSE UNCHANGED <<alerts, lastReading>>

\* the forecast fetch w completes, and the cards are blanked
weatherResponse_BlanksCards ==
    /\ page = "open"
    /\ \E w \in weatherRequests :
         /\ \E response \in ForecastResponses(w.daysAhead + 1, service.readings) :
               loadWeatherResume(w, response)
         /\ weatherRequests' = weatherRequests \ {w}
    /\ cards' = BlankCards
    /\ UNCHANGED <<envVars, sideVars, storeVars, page, config, cache, selectedPropertyId,
                   screen, completeSetupBtnDisabled, refreshBtnDisabled,
                   statusLabel, requests, nextId, refreshed, droidVars,
                   webPrev, droidPrev, refreshLog>>

\* the forecast fetch w completes
weatherResponse ==
    /\ page = "open"
    /\ \E w \in weatherRequests :
         /\ \E response \in ForecastResponses(w.daysAhead + 1, service.readings) :
               loadWeatherResume(w, response)
         /\ weatherRequests' = weatherRequests \ {w}
    /\ UNCHANGED <<envVars, sideVars, storeVars, page, config, cache, selectedPropertyId,
                   screen, completeSetupBtnDisabled, refreshBtnDisabled,
                   statusLabel, cards, requests, nextId, refreshed, droidVars,
                   webPrev, droidPrev, refreshLog>>

\* a day passes
Tick ==
    /\ now < SessionEpoch + 24 * MaxDaysPassed
    /\ now' = now + 24
    /\ UNCHANGED <<collectionDay, service, device, sideVars, storeVars, pageVars, droidVars,
                   histVars>>

-----------------------------------------------------------------------------
(* Android client: the dashboard                                            *)

\* initState() -> _loadData() up to its http.get: nothing without a stored
\* property_id, else _isRefreshing is set and the schedule is requested.
\* The Refresh button (disabled while _isRefreshing) and the pull-to-refresh
\* gesture call _loadData the same way.
_loadData(origin) ==
    /\ device = "android"
    /\ IF prefsPropertyId = 0
       THEN UNCHANGED <<droidIsRefreshing, droidRequests>>
       ELSE /\ droidIsRefreshing' = TRUE
            /\ droidRequests' = droidRequests \cup
                  {[id |-> Cardinality(droidRequests) + 1,
                    property |-> prefsPropertyId, origin |-> origin]}
    /\ UNCHANGED <<prefsPropertyId, droidData, droidStatus, droidAlerts, droidWeather>>

\* the dashboard is mounted: initState
droidInitState ==
    /\ ~droidOpen
    /\ droidOpen' = TRUE
    /\ _loadData("launch")
    /\ UNCHANGED <<envVars, sideVars, storeVars, pageVars, histVars>>

\* the collections the Android client holds after a 200 answer: the fallback
\* applies when collections is missing or empty and collection_day is given
DroidResolve(data, clock) ==
    IF Len(data.collections) = 0 /\ data.collection_day # 0
    THEN [data EXCEPT !.collections = _calculateCollections(data.collection_day, clock)]
    ELSE data

\* the binType _buildBinCards gives an entry's type, "none" where it continues
binType(type) ==
    LET t == toLowerCase(Spell(type))
    IN  IF includes(t, Spell("fogo")) \/ includes(t, Spell("organic")) THEN "fogo"
        ELSE IF includes(t, Spell("recycling")) THEN "recycling"
        ELSE IF \/ includes(t, Spell("landfill"))
                \/ includes(t, Spell("garbage"))
                \/ includes(t, Spell("waste"))
             THEN "landfill"
        ELSE "none"

\* binType, worked out once for each name
binTypeOfName == [type \in TypeNames |-> binType(type)]

\* _buildBinCard(title, color, date): the days count and the date it shows
_buildBinCard(date, clock) ==
    [shown |-> TRUE,
     days  |-> TruncDiv(Midnight(DateTimeDay(date)) - Midnight(LocalDay(clock)), 24),
     date  |-> DateTimeDay(date)]

\* _buildBinCards(): binData holds, per binType, the date of the last dated
\* entry of that type; a card without a date shows none
_buildBinCards(data, clock) ==
    [s \in Streams |->
        LET c == data.collections
            of == {i \in 1..Len(c) : binTypeOfName[c[i].type] = s /\ c[i].next.zone # "absent"}
        IN  IF of = {} THEN BlankCard
            ELSE _buildBinCard(
                   DateTime_parse(c[CHOOSE i \in of : \A j \in of : j <= i].next),
                   clock)]

\* what the Android client keeps in SharedPreferences: _completeSetup writes
\* property_id and setup_completed, and no other key is ever written, so no
\* schedule is stored
prefs ==
    [property_id |-> prefsPropertyId, setup_completed |-> prefsPropertyId # 0,
     snapshot |-> Null]

\* the instants _loadWeather parses from the entries that carry a next.date
DroidDates(collections) ==
    { DateTime_parse(collections[i].next).at :
        i \in {j \in 1..Len(collections) : collections[j].next.zone # "absent"} }

\* _loadWeather up to its http.get
_loadWeather(data, clock) ==
    IF data.kind = "null" \/ Len(data.collections) = 0 \/ DroidDates(data.collections) = {}
    THEN [req |-> FALSE, daysAhead |-> 0]
    ELSE LET nearestDate == MinOf(DroidDates(data.collections))
             daysAhead   == TruncDiv(nearestDate - clock, 24)
         IN  IF daysAhead < 0 \/ daysAhead > 7
             THEN [req |-> FALSE, daysAhead |-> daysAhead]
             ELSE [req |-> TRUE, daysAhead |-> daysAhead]

\* the alerts _loadWeather sets for one day's wind and rain readings
DroidWeatherAlerts(wind, rain) ==
    (IF wind >= WindAlertKmh * 10 THEN {"Wind"} ELSE {})
        \cup (IF rain >= RainAlertMm * 10 THEN {"Rain"} ELSE {})

\* _loadData from the completion of its http.get to its end
_loadDataResume(r, response) ==
    LET data == DroidResolve(response.body, now)
        weather == _loadWeather(data, now)
    IN  /\ IF response.kind = "ok"
           THEN /\ droidData' = data
                /\ droidStatus' = "Last updated"
                /\ droidWeather' =
                      IF weather.req
                      THEN droidWeather \cup
                             {[id |-> r.id, daysAhead |-> weather.daysAhead]}
                      ELSE droidWeather
           ELSE /\ droidStatus' = IF response.kind = "network_error"
                                  THEN "Error loading data" ELSE droidStatus
                /\ UNCHANGED <<droidData, droidWeather>>
        /\ droidIsRefreshing' = FALSE
        /\ droidRequests' = droidRequests \ {r}

\* the schedule request r completes
droidResponse ==
    /\ droidOpen
    /\ \E r \in droidRequests :
         \E response \in ScheduleResponses(r.property, now, collectionDay, service) :
            _loadDataResume(r, response)
    /\ UNCHANGED <<envVars, sideVars, storeVars, pageVars, histVars, prefsPropertyId,
                   droidOpen, droidAlerts>>

\* _loadWeather from the completion of its http.get to its end
_loadWeatherResume(w, response) ==
    IF ForecastRead(response)
    THEN /\ droidAlerts' = DroidWeatherAlerts(response.wind[w.daysAhead + 1],
                                              response.rain[w.daysAhead + 1])
         /\ lastReading' = <<[wind |-> response.wind[w.daysAhead + 1],
                              rain |-> response.rain[w.daysAhead + 1]]>>
    ELSE UNCHANGED <<droidAlerts, lastReading>>

\* the forecast request w completes
droidWeatherResponse ==
    /\ droidOpen
    /\ \E w \in droidWeather :
         /\ \E response \in ForecastResponses(w.daysAhead + 1, service.readings) :
               _loadWeatherResume(w, response)
         /\ droidWeather' = droidWeather \ {w}
    /\ UNCHANGED <<envVars, sideVars, storeVars, pageVars, webPrev, droidPrev, refreshLog,
                   prefsPropertyId, droidOpen, droidData, droidStatus,
                   droidIsRefreshing, droidRequests>>

-----------------------------------------------------------------------------
(* The session specification of the web client                              *)

NoDroid ==
    /\ prefsPropertyId = 0
    /\ droidOpen = FALSE
    /\ droidData = Null
    /\ droidStatus = "Loading..."
    /\ droidAlerts = {}
    /\ droidIsRefreshing = FALSE
    /\ droidRequests = {}
    /\ droidWeather = {}

PageClosed ==
    /\ page = "closed"
    /\ config = NoConfig
    /\ cache = Null
    /\ selectedPropertyId = 0
    /\ screen = "none"
    /\ completeSetupBtnDisabled = TRUE
    /\ refreshBtnDisabled = FALSE
    /\ statusLabel = ""
    /\ cards = BlankCards
    /\ alerts = {}
    /\ requests = {}
    /\ weatherRequests = {}
    /\ nextId = 1
    /\ refreshed = FALSE

\* a fresh install: nothing stored, the page not yet loaded
Init ==
    /\ now = SessionEpoch
    /\ collectionDay = 3
    /\ device = "web"
    /\ service = [ahead |-> {1}, other |-> {1}, repeated |-> {},
                  readings |-> {<<WindAlertKmh * 10, RainAlertMm * 10>>,
                                <<WindAlertKmh * 10 - 1, RainAlertMm * 10 - 1>>}]
    /\ lsConfig = NoConfig
    /\ lsCache = Null
    /\ PageClosed
    /\ NoDroid
    /\ webPrev = <<>>
    /\ droidPrev = <<>>
    /\ lastReading = <<>>
    /\ refreshLog = NoRefreshLog
    /\ wizard = WizardAllOffered
    /\ proxy = ProxyIdle

Next ==
    \/ init
    \/ Close
    \/ \E p \in Properties : onPropertySelected(p)
    \/ completeSetup
    \/ changeAddress
    \/ refreshClick
    \/ refreshResponse
    \/ weatherResponse
    \/ Tick

Spec == Init /\ [][Next]_vars

-----------------------------------------------------------------------------
(* The resolution specification: each client resolving one answer of the    *)
(* schedule service, at clocks around the turn of the year and the two      *)
(* daylight-saving changes, then again a week later                         *)

\* days in each window of clocks
WindowDays == 9

\* the first day of each window: Monday 2026-03-02 (ISO week 10), the last
\* week of 2026 (ISO week 53), the week before daylight saving ends
\* (Sunday 2027-04-04) and the week before it starts (Sunday 2027-10-03)
WindowStarts ==
    { Jan1(2026) + 60,
      Jan1(2027) - 6,
      FirstSundayFrom(Apr1(2027)) - 7,
      FirstSundayFrom(Oct1(2027)) - 8 }

\* local hours of the day at which the clients run
ClockHours == {9, 23}

CalcClocks ==
    { Midnight(d0 + i) + h : d0 \in WindowStarts, i \in 0..(WindowDays - 1),
                             h \in ClockHours }

\* the same wall clock one week later
WeekLater(clock) == FromLocal(LocalOf(clock) + 24 * 7)

\* a week passes and the page is opened anew
webWeekPasses ==
    /\ device = "web" /\ page = "open"
    /\ requests = {} /\ weatherRequests = {}
    /\ refreshed /\ webPrev = <<>>
    /\ webPrev' = <<[collections |-> cache.collections, at |-> cache.cached_at]>>
    /\ now' = WeekLater(now)
    /\ ClosePage
    /\ lastReading' = <<>>
    /\ UNCHANGED <<collectionDay, service, device, sideVars, storeVars, droidVars, droidPrev>>

\* a week passes and the dashboard is mounted anew
droidWeekPasses ==
    /\ device = "android" /\ droidOpen
    /\ droidRequests = {} /\ droidWeather = {}
    /\ droidData # Null /\ droidPrev = <<>>
    /\ droidPrev' = <<[collections |-> droidData.collections, at |-> now]>>
    /\ now' = WeekLater(now)
    /\ droidOpen' = FALSE
    /\ droidData' = Null
    /\ droidStatus' = "Loading..."
    /\ droidAlerts' = {}
    /\ droidIsRefreshing' = FALSE
    /\ lastReading' = <<>>
    /\ UNCHANGED <<collectionDay, service, device, sideVars, storeVars, pageVars,
                   prefsPropertyId, droidRequests, droidWeather, webPrev,
                   refreshLog>>

\* setup was completed earlier on the device; nothing is cached
InitCalc ==
    /\ now \in CalcClocks
    /\ collectionDay \in 1..7
    /\ device \in {"web", "android"}
    /\ service = [ahead |-> {-1, 8}, other |-> {2}, repeated |-> {2},
                  readings |-> WindReadings \X RainReadings]
    /\ lsConfig = IF device = "web" THEN Config(1) ELSE NoConfig
    /\ lsCache = Null
    /\ PageClosed
    /\ prefsPropertyId = IF device = "android" THEN 1 ELSE 0
    /\ droidOpen = FALSE
    /\ droidData = Null
    /\ droidStatus = "Loading..."
    /\ droidAlerts = {}
    /\ droidIsRefreshing = FALSE
    /\ droidRequests = {}
    /\ droidWeather = {}
    /\ webPrev = <<>>
    /\ droidPrev = <<>>
    /\ lastReading = <<>>
    /\ refreshLog = NoRefreshLog
    /\ wizard = WizardAllOffered
    /\ proxy = ProxyIdle

NextCalc ==
    \/ init
    \/ refreshResponse
    \/ weatherResponse
    \/ webWeekPasses
    \/ droidInitState
    \/ droidResponse
    \/ droidWeatherResponse
    \/ droidWeekPasses

SpecCalc == InitCalc /\ [][NextCalc]_vars

-----------------------------------------------------------------------------
(* Claims about the cache lifecycle (Spec)                                  *)

\* a step in which refreshData resumes from a fetch that failed: a network
\* error or a non-OK response
FailedRefreshStep ==
    \E r \in requests :
      \E response \in ScheduleResponses(r.property, now, collectionDay, service) :
         response.kind # "ok" /\ refreshDataResume(r, response)

\* C1: a failed schedule refresh (network error or non-OK response) leaves the
\* stored cache record exactly as it was, so the next load of the cache shows
\* the snapshot stored before the failure.
C1_FailedRefreshKeepsSnapshot ==
    [][FailedRefreshStep =>
         /\ lsCache' = lsCache
         /\ loadCachedData(lsCache', BlankCards, now') =
              loadCachedData(lsCache, BlankCards, now)]_vars

\* a loud refresh has just failed while a snapshot with entries is stored
C1_Witness ==
    /\ statusLabel = "Error refreshing. Using cached data."
    /\ Truthy(lsCache)
    /\ Len(lsCache.collections) > 0

\* a step in which refreshData resumes from an OK answer that carries neither
\* a non-empty collections list nor a collection_day, while a snapshot with
\* entries is stored
UnavailableStep ==
    /\ Truthy(lsCache) /\ Len(lsCache.collections) > 0
    /\ \E r \in requests :
         \E response \in ScheduleResponses(r.property, now, collectionDay, service) :
            /\ response.kind = "ok"
            /\ Len(response.body.collections) = 0
            /\ response.body.collection_day = 0
            /\ refreshDataResume(r, response)

\* C2: when the service answers with neither collections nor collection_day,
\* the refresh keeps the stored snapshot: it does not overwrite it with the
\* empty data.
C2_UnavailableKeepsSnapshot ==
    [][UnavailableStep => lsCache' = lsCache]_vars

\* every dated entry of the stored snapshot is on the card of its stream
SnapshotOn(cs) ==
    \A i \in 1..Len(lsCache.collections) :
        LET e == lsCache.collections[i]
        IN  (CardOfName[e.type] # "none" /\ e.next.zone # "absent") =>
               /\ cs[CardOfName[e.type]].shown
               /\ cs[CardOfName[e.type]].date = LocalDay(ParseDate(e.next))

\* C3: on a launch with a stored address and a stored snapshot, the snapshot is
\* on the cards when the launch fetch is issued, and it stays there for as long
\* as no refresh has succeeded, whether the fetch is pending or has failed.
C3_OfflineFirst ==
    (page = "open" /\ Truthy(lsCache) /\ ~refreshed) =>
        /\ SnapshotOn(cards)
        /\ \A r \in requests : r.origin = "launch" => SnapshotOn(r.shown)

\* launched with a stored snapshot that has entries; the launch fetch failed
C3_Witness ==
    /\ page = "open" /\ ~refreshed /\ requests = {}
    /\ Truthy(lsCache) /\ Len(lsCache.collections) > 0
    /\ cards # BlankCards

\* C4: at most one schedule fetch is in flight at any time.
C4_OneRefreshInFlight == Cardinality(requests) <= 1

\* C5: no forecast fetch is outstanding while a schedule fetch is in flight,
\* and a forecast fetch is only ever started by a refresh whose own schedule
\* fetch has completed.
C5_WeatherAfterRefresh ==
    /\ weatherRequests # {} => requests = {}
    /\ \A w \in weatherRequests : \A r \in requests : r.id # w.id

-----------------------------------------------------------------------------
(* Claims about the fallback derivation and the weather step (SpecCalc)     *)

\* the calendar date an entry's date string denotes on the device
EntryDay(collections, type) ==
    LocalDay(ParseDate(collections[CHOOSE i \in 1..Len(collections) :
                                      collections[i].type = type].next))

\* the earliest calendar day on or after the day of `clock` whose weekday is cd
FallbackDay(cd, clock) ==
    LocalDay(clock) + ((cd - IsoWeekday(LocalDay(clock)) + 7) % 7)

\* the web page holds a schedule its fallback derived from collection_day
WebFallbackHeld ==
    /\ device = "web" /\ page = "open" /\ refreshed
    /\ cache.collection_day # 0
    /\ cache.collections = calculateCollections(cache.collection_day, cache.cached_at)

\* the Android dashboard holds a schedule its fallback derived from collection_day
DroidFallbackHeld ==
    /\ device = "android" /\ droidOpen /\ droidData # Null
    /\ droidData.collection_day # 0
    /\ droidData.collections = _calculateCollections(droidData.collection_day, now)

\* C6: the Organic date the fallback emits is the earliest calendar date on or
\* after today whose weekday is collection_day (today itself when today is
\* that weekday), read from the emitted entry.
C6_OrganicOnCollectionDay ==
    /\ WebFallbackHeld =>
          EntryDay(cache.collections, "FOGO") =
             FallbackDay(cache.collection_day, cache.cached_at)
    /\ DroidFallbackHeld =>
          EntryDay(droidData.collections, "FOGO") =
             FallbackDay(droidData.collection_day, now)

\* Recycling and Landfill are 7 calendar days apart and one is on the Organic day
SevenApart(collections) ==
    LET f == EntryDay(collections, "FOGO")
        r == EntryDay(collections, "Recycling")
        l == EntryDay(collections, "Landfill")
    IN  (r - l = 7 \/ l - r = 7) /\ (f = r \/ f = l)

\* C7: the Recycling and Landfill dates the fallback emits are never equal, are
\* exactly 7 calendar days apart, and one of them is the Organic date.
C7_RecyclingLandfillSevenApart ==
    /\ WebFallbackHeld => SevenApart(cache.collections)
    /\ DroidFallbackHeld => SevenApart(droidData.collections)

\* the stream collected on the nearer of the two visits
NearerStream(collections) ==
    IF EntryDay(collections, "Recycling") < EntryDay(collections, "Landfill")
    THEN "Recycling" ELSE "Landfill"

\* C8: resolving by the fallback on day t and again on day t + 7 swaps the
\* roles of Recycling and Landfill, across every week boundary.
C8_WeeklySwap ==
    /\ (WebFallbackHeld /\ webPrev # <<>>
          /\ webPrev[1].collections =
                calculateCollections(cache.collection_day, webPrev[1].at))
       => NearerStream(webPrev[1].collections) # NearerStream(cache.collections)
    /\ (DroidFallbackHeld /\ droidPrev # <<>>
          /\ droidPrev[1].collections =
                _calculateCollections(droidData.collection_day, droidPrev[1].at))
       => NearerStream(droidPrev[1].collections) # NearerStream(droidData.collections)

\* C9: a forecast request carries daysAhead in 0..7, and none is issued when
\* the nearest collection date is before today or more than 7 days ahead.
C9_ForecastWithinHorizon ==
    /\ \A w \in weatherRequests \cup droidWeather : w.daysAhead \in 0..7
    /\ (device = "web" /\ page = "open" /\ ShownDates(cards) # {}
          /\ (MinOf(ShownDates(cards)) - LocalDay(now)) \notin 0..7)
       => weatherRequests = {}
    /\ (device = "android" /\ droidOpen /\ droidData # Null
          /\ DroidDates(droidData.collections) # {}
          /\ (LocalDay(MinOf(DroidDates(droidData.collections))) - LocalDay(now))
                \notin 0..7)
       => droidWeather = {}

\* C10: after a forecast was read, the Wind alert is shown exactly when the
\* day's wind is at least 40.0 km/h and the Rain alert exactly when its rain is
\* at least 5.0 mm, each whatever the other reading (readings in tenths).
C10_AlertThresholds ==
    lastReading # <<>> =>
        LET shown == IF device = "web" THEN alerts ELSE droidAlerts
        IN  /\ ("Wind" \in shown) <=> (lastReading[1].wind >= 400)
            /\ ("Rain" \in shown) <=> (lastReading[1].rain >= 50)
            /\ shown \subseteq {"Wind", "Rain"}

\* wind exactly 40.0 km/h with rain 4.9 mm: the Wind alert alone
C10_Witness ==
    /\ lastReading = <<[wind |-> 400, rain |-> 49]>>
    /\ device = "web"
    /\ alerts = {"Wind"}

-----------------------------------------------------------------------------
(* Claims about the resolved schedule (SpecCalc)                            *)

\* the clock at which the schedule a client holds was resolved
WebResolvedAt == cache.cached_at
DroidResolvedAt == now

\* the three dates of the scenario: today is Monday 2026-03-02 (ISO week 10),
\* Organic and Recycling fall on today + 2, Landfill on today + 9
ScenarioDates(collections, clock) ==
    /\ EntryDay(collections, "FOGO") = LocalDay(clock) + 2
    /\ EntryDay(collections, "Recycling") = LocalDay(clock) + 2
    /\ EntryDay(collections, "Landfill") = LocalDay(clock) + 9

\* C11: with collection_day = 3 resolved by the fallback on the Monday of ISO
\* week 10, Organic and Recycling are on the Wednesday of that week (today + 2)
\* and Landfill on the Wednesday after (today + 9).
C11_Week10Scenario ==
    /\ (WebFallbackHeld /\ cache.collection_day = 3
          /\ LocalDay(WebResolvedAt) = Jan1(2026) + 60)
       => ScenarioDates(cache.collections, WebResolvedAt)
    /\ (DroidFallbackHeld /\ droidData.collection_day = 3
          /\ LocalDay(DroidResolvedAt) = Jan1(2026) + 60)
       => ScenarioDates(droidData.collections, DroidResolvedAt)

\* the streams for which a list of entries supplies a date
SuppliedStreams(collections) ==
    { CardOfName[collections[i].type] :
        i \in {j \in 1..Len(collections) : collections[j].next.zone # "absent"} }
      \ {"none"}

\* every stream the list supplies is on its card with the date supplied, and
\* the card of every other stream shows nothing
ExactlySupplied(cs, collections) ==
    /\ \A i \in 1..Len(collections) :
          LET e == collections[i]
          IN  (CardOfName[e.type] # "none" /\ e.next.zone # "absent") =>
                 /\ cs[CardOfName[e.type]].shown
                 /\ cs[CardOfName[e.type]].date = e.next.day
    /\ \A s \in Streams \ SuppliedStreams(collections) : ~cs[s].shown

\* C12: after a refresh that returned a non-empty explicit list lacking a
\* stream, the schedule shown holds exactly the supplied streams with their
\* supplied dates; the missing stream is neither derived nor carried over.
C12_PartialListShownAsSupplied ==
    /\ (device = "web" /\ page = "open" /\ refreshed
          /\ Len(cache.collections) > 0
          /\ SuppliedStreams(cache.collections) # Streams)
       => ExactlySupplied(cards, cache.collections)
    /\ (device = "android" /\ droidOpen /\ droidData # Null
          /\ Len(droidData.collections) > 0
          /\ SuppliedStreams(droidData.collections) # Streams)
       => ExactlySupplied(_buildBinCards(droidData, now), droidData.collections)

\* the stream each name of the service belongs to by the stated rule: fogo or
\* organic first, then recycling, then landfill, garbage or waste
StreamOfName(name) ==
    CASE name \in {"FOGO", "Organic Waste"}                 -> "fogo"
      [] name \in {"Recycling", "RECYCLING"}                -> "recycling"
      [] name \in {"Landfill", "Landfill Waste", "Garbage"} -> "landfill"
      [] OTHER                                              -> "none"

\* the cards that show a date are those of the streams the entries' names
\* belong to
ShownByName(cs, collections) ==
    \A s \in Streams :
        cs[s].shown <=> \E i \in 1..Len(collections) :
                           StreamOfName(collections[i].type) = s

OneEntryPerStream(collections) ==
    /\ Len(collections) = 3
    /\ \A s \in Streams :
          Cardinality({i \in 1..Len(collections) :
                         StreamOfName(collections[i].type) = s}) = 1

SuppliedLists(property, clock) ==
    { b.collections : b \in ScheduleBodies(property, clock, collectionDay, service) }

-----------------------------------------------------------------------------
(* Claims about the weather step                                            *)

\* a forecast fetch of either client completes, whatever it came to
WeatherStep == weatherResponse \/ droidWeatherResponse

\* a schedule fetch of the web client completes with a schedule and the
\* weather step returns before its fetch
WeatherSkippedStep ==
    /\ refreshResponse
    /\ lsCache' # lsCache
    /\ weatherRequests' = weatherRequests

\* C15: the weather step, whatever it comes to (skipped, a forecast, a network
\* error, a malformed body, missing arrays), leaves the stored cache record,
\* the stored config record and the collection entries on display as they
\* are; when it is skipped they are as the refresh left them.
C15_WeatherAdditive ==
    [][ /\ WeatherStep =>
             /\ lsCache' = lsCache /\ cache' = cache
             /\ lsConfig' = lsConfig /\ prefsPropertyId' = prefsPropertyId
             /\ cards' = cards
             /\ _buildBinCards(droidData', now') = _buildBinCards(droidData, now)
        /\ WeatherSkippedStep =>
             /\ lsConfig' = lsConfig
             /\ cards' = updateCards(cards, lsCache'.collections, now) ]_vars

\* the web client asked for a forecast, the fetch is over and left no
\* reading: it failed, and the schedule is still stored and on the cards
C15_Witness ==
    /\ device = "web" /\ page = "open" /\ refreshed
    /\ requests = {} /\ weatherRequests = {}
    /\ loadWeather(cards, now).req
    /\ lastReading = <<>> /\ alerts = {}
    /\ Truthy(lsCache) /\ cards # BlankCards

\* the forecast fetch of the web client's latest refresh completes without a
\* forecast that can be read, no later refresh being under way
LatestWeatherFails ==
    /\ requests = {}
    /\ \E w \in weatherRequests :
         /\ w.id = nextId - 1
         /\ \E response \in ForecastResponses(w.daysAhead + 1, service.readings) :
               ~ForecastRead(response) /\ loadWeatherResume(w, response)
         /\ weatherRequests' = weatherRequests \ {w}

\* the web client's latest refresh completes with a schedule and its weather
\* step is skipped
LatestWeatherSkipped ==
    /\ \E r \in requests :
         /\ requests = {r}
         /\ \E response \in ScheduleResponses(r.property, now, collectionDay, service) :
               Truthy(apiGet(response)) /\ refreshDataResume(r, response)
    /\ weatherRequests' = weatherRequests

\* C16: the advisories on display belong to the latest refresh: once its
\* weather step has failed or was skipped the list is empty, and advisories of
\* an earlier refresh are no longer shown.
C16_AdvisoriesOfLatestRefresh ==
    [][(LatestWeatherFails \/ LatestWeatherSkipped) => alerts' = {}]_vars

-----------------------------------------------------------------------------
(* Claims about the refresh lifecycle (Spec)                                *)

\* the status texts that tell the user cached data is in use
CachedDataStatus == {"Using cached data", "Error refreshing. Using cached data."}

\* C17: after a failed refresh, silent or asked for by the user, the stored
\* snapshot is still there and the status tells the user that cached data is
\* in use.
C17_FailedRefreshSurfaced ==
    [][(Truthy(lsCache) /\ Len(lsCache.collections) > 0 /\ FailedRefreshStep)
         => /\ lsCache' = lsCache
            /\ statusLabel' \in CachedDataStatus]_vars

\* refreshData resumes from a fetch that returned a body
RefreshSucceededStep ==
    \E r \in requests :
        \E response \in ScheduleResponses(r.property, now, collectionDay, service) :
            Truthy(apiGet(response)) /\ refreshDataResume(r, response)

\* the order of a successful refresh of the web client, read off the step's
\* outcome: what is stored is the resolved schedule (the fallback applied,
\* stamped with the clock), the cards were updated from what is stored, and
\* the forecast request was worked out from the updated cards
WebRefreshInOrder ==
    /\ Truthy(lsCache') /\ lsCache' = cache' /\ lsCache'.cached_at = now
    /\ ~(Len(lsCache'.collections) = 0 /\ lsCache'.collection_day # 0)
    /\ cards' = updateCards(cards, lsCache'.collections, now)
    /\ \A w \in weatherRequests' \ weatherRequests :
          /\ loadWeather(cards', now).req
          /\ w.daysAhead = loadWeather(cards', now).daysAhead

\* C18: a successful refresh resolves the response, stores the new snapshot
\* over the old one, updates the display and only then starts the weather
\* step; no weather step is started by a refresh that stored no snapshot.
C18_RefreshOrder ==
    [][ /\ RefreshSucceededStep => WebRefreshInOrder
        /\ (weatherRequests' \ weatherRequests # {}) =>
              RefreshSucceededStep /\ lsCache'.cached_at = now
        /\ (droidWeather' \ droidWeather # {}) => prefs'.snapshot # Null ]_vars

\* C19: while no address selection is stored the page is on its setup screen,
\* no schedule request and no forecast request is outstanding, and the cache
\* record has never been written.
C19_NeedsSetup ==
    lsConfig = NoConfig =>
        /\ page = "open" => screen = "setup"
        /\ requests = {} /\ weatherRequests = {}
        /\ lsCache = Null /\ cache = Null

\* the wizard is open with a property picked, setup not yet completed
C19_Witness ==
    /\ lsConfig = NoConfig
    /\ page = "open" /\ screen = "setup"
    /\ selectedPropertyId # 0 /\ ~completeSetupBtnDisabled

\* refreshData resumes from an OK answer that carries a schedule: collections
\* or a collection_day
ScheduleReceivedStep ==
    \E r \in requests :
        \E response \in ScheduleResponses(r.property, now, collectionDay, service) :
            /\ response.kind = "ok"
            /\ Len(response.body.collections) > 0 \/ response.body.collection_day # 0
            /\ refreshDataResume(r, response)

\* the operations that are neither a completed setup nor a successful refresh
OtherOperation ==
    \/ init
    \/ Close
    \/ changeAddress
    \/ \E p \in Properties : onPropertySelected(p)
    \/ refreshClick
    \/ weatherResponse
    \/ FailedRefreshStep
    \/ Tick

\* C20: the stored config record is written only by a completed setup and the
\* stored cache record only by a successful refresh; launch, loading the
\* cached data, change address, picking an address, the weather step and a
\* failed refresh leave both records as they are.
C20_SingleWriter ==
    [][ /\ lsConfig' # lsConfig => completeSetup
        /\ lsCache' # lsCache => ScheduleReceivedStep
        /\ OtherOperation => UNCHANGED storeVars ]_vars

-----------------------------------------------------------------------------
(* Claims about displayed day counts, the forecast day and the week number  *)
(* (SpecCalc)                                                               *)

\* C21: the number of days shown on a card is the number of whole calendar
\* days from today to the date the card shows, and is never negative: for the
\* entries the fallback derived (0 when the collection day is today) and for a
\* stored snapshot shown on a later launch.
C21_DaysUntilCollection ==
    /\ (device = "web" /\ page = "open"
          /\ (WebFallbackHeld \/ (~refreshed /\ Truthy(lsCache))))
       => \A s \in Streams :
             cards[s].shown =>
                /\ cards[s].days = cards[s].date - LocalDay(now)
                /\ cards[s].days >= 0
    /\ DroidFallbackHeld
       => \A s \in Streams :
             LET card == _buildBinCards(droidData, now)[s]
             IN  card.shown =>
                    /\ card.days = card.date - LocalDay(now)
                    /\ card.days >= 0

\* C22: the forecast day is the earliest date among the entries held, and the
\* days-ahead value of every forecast request (its length less one, and the
\* index read) is the number of whole calendar days from today to that date,
\* whatever the time of day: 1 for tomorrow, 0 for today.
C22_ForecastDay ==
    /\ (device = "web" /\ page = "open")
       => \A w \in weatherRequests :
             w.daysAhead = MinOf(ShownDates(cards)) - LocalDay(now)
    /\ (device = "android" /\ droidOpen /\ droidData # Null)
       => \A w \in droidWeather :
             w.daysAhead = LocalDay(MinOf(DroidDates(droidData.collections)))
                              - LocalDay(now)

\* the ISO-8601 week number of a calendar day: the week of the year that holds
\* the Thursday of the day's week
IsoWeekOf(day) ==
    LET thursday == day - IsoWeekday(day) + 4
    IN  (thursday - Jan1(YearOf(thursday))) \div 7 + 1

\* C23: the week number the fallback takes for its recycling-week test is the
\* ISO-8601 week number of the next collection date, for every date, the first
\* and last days of a year included.
C23_TrueIsoWeek ==
    /\ WebFallbackHeld
       => LET nextCollection ==
                 Midnight(FallbackDay(cache.collection_day, cache.cached_at))
          IN  getISOWeek(nextCollection) = IsoWeekOf(LocalDay(nextCollection))
    /\ DroidFallbackHeld
       => LET nextCollection == DateTime_parse(droidData.collections[1].next).at
          IN  _getIsoWeek(nextCollection) = IsoWeekOf(LocalDay(nextCollection))

-----------------------------------------------------------------------------
(* Claim about the two clients' fallbacks (SpecCalc)                        *)

\* C28: for every date and every collection_day 1..7 the web fallback and the
\* Android fallback give the same calendar date to each of FOGO, Recycling
\* and Landfill.
C28_SameDates ==
    /\ WebFallbackHeld
       => \A type \in {"FOGO", "Recycling", "Landfill"} :
             EntryDay(cache.collections, type)
                = EntryDay(_calculateCollections(cache.collection_day,
                                                 cache.cached_at), type)
    /\ DroidFallbackHeld
       => \A type \in {"FOGO", "Recycling", "Landfill"} :
             EntryDay(droidData.collections, type)
                = EntryDay(calculateCollections(droidData.collection_day, now), type)

-----------------------------------------------------------------------------
(* Claim about lists that name a stream more than once (SpecCalc)           *)

\* two entries of the list belong to one stream
Repeats(collections) ==
    \E i, j \in 1..Len(collections) :
        /\ i < j
        /\ CardOfName[collections[i].type] # "none"
        /\ CardOfName[collections[i].type] = CardOfName[collections[j].type]

\* each stream's card shows what the last entry of that stream carries: its
\* date, or nothing when it carries none
LastEntryWins(cs, collections) ==
    \A s \in Streams :
        LET of == {i \in 1..Len(collections) : CardOfName[collections[i].type] = s}
        IN  of # {} =>
               LET e == collections[CHOOSE i \in of : \A j \in of : j <= i]
               IN  IF e.next.zone = "absent"
                   THEN ~cs[s].shown
                   ELSE cs[s].shown /\ cs[s].date = e.next.day

\* C24: when several entries of the list map to one stream the last of them
\* wins, in every order of the list, also when that last entry carries no
\* next date.  Checked on the first schedule a client shows.
C24_LastEntryWins ==
    /\ (device = "web" /\ page = "open" /\ refreshed /\ webPrev = <<>>
          /\ Repeats(cache.collections))
       => LastEntryWins(cards, cache.collections)
    /\ (device = "android" /\ droidOpen /\ droidData # Null
          /\ Repeats(droidData.collections))
       => LastEntryWins(_buildBinCards(droidData, now), droidData.collections)

-----------------------------------------------------------------------------
(* Claims about the snapshot and the configured address, and about          *)
(* overlapping refreshes (Spec)                                             *)

\* C26: the stored snapshot, and the schedule the dashboard holds, were
\* fetched for the property id that config holds: once a change of address
\* has completed and no refresh is in flight, neither a failed refresh after
\* the setup, nor a relaunch, nor a refresh of the old property that was in
\* flight leaves the previous property's snapshot stored or shown.
C26_SnapshotOfConfiguredProperty ==
    (requests = {} /\ lsConfig # NoConfig)
       => /\ Truthy(lsCache) => lsCache.property = lsConfig.property_id
          /\ (page = "open" /\ screen = "dashboard" /\ Truthy(cache))
                => cache.property = config.property_id

\* C27: once every outstanding refresh has completed, the snapshot retained
\* and displayed is that of the most recently issued refresh that succeeded:
\* the answer to an earlier refresh that arrives later does not overwrite it.
C27_LatestRefreshRetained ==
    (page = "open" /\ requests = {}) => refreshLog.stored = refreshLog.latest

-----------------------------------------------------------------------------
(* Claim about the refresh control (SpecLive)                               *)

\* every fetch of the schedule settles: the browser resolves or rejects it
SpecLive == Spec /\ WF_vars(refreshResponse)

\* a refresh the user asked for with the Refresh button is in flight
UserRefreshInFlight == \E r \in requests : ~r.silent

\* the Refresh button, once disabled, is enabled again
C30_EventuallyEnabled == refreshBtnDisabled ~> ~refreshBtnDisabled

\* C30: the Refresh button is disabled only while a refresh the user asked
\* for is in flight, and it is not enabled again while such a refresh is
\* still in flight, whatever other refresh finishes meanwhile.
C30_RefreshControl ==
    page = "open" => (refreshBtnDisabled <=> UserRefreshInFlight)

-----------------------------------------------------------------------------
(* The setup wizard with its lookups, on a device that holds no config      *)

InitSetup ==
    /\ now = SessionEpoch
    /\ collectionDay = 3
    /\ device = "web"
    /\ service = [ahead |-> {1}, other |-> {1}, repeated |-> {},
                  readings |-> {<<WindAlertKmh * 10, RainAlertMm * 10>>}]
    /\ lsConfig = NoConfig
    /\ lsCache = Null
    /\ PageClosed
    /\ NoDroid
    /\ webPrev = <<>>
    /\ droidPrev = <<>>
    /\ lastReading = <<>>
    /\ refreshLog = NoRefreshLog
    /\ wizard = WizardFresh
    /\ proxy = ProxyIdle

NextSetup ==
    \/ init
    \/ \E l \in Localities : onLocalitySelected(l)
    \/ \E s \in Streets : onStreetSelected(s)
    \/ lookupResponse
    \/ \E p \in Properties : onPropertySelected(p)
    \/ completeSetup

SpecSetup == InitSetup /\ [][NextSetup]_vars

-----------------------------------------------------------------------------
(* The proxy handling one request after another                             *)

NextProxy ==
    \E request \in Requests, upstream \in UpstreamOutcomes : fetch(request, upstream)

SpecProxy == Init /\ [][NextProxy]_vars

-----------------------------------------------------------------------------
(* Claim about the setup wizard (SpecSetup)                                 *)

\* property p lies in the street selected, and that street in the suburb
\* selected
OfSelection(p) ==
    /\ p \in PropertiesOf(wizard.street)
    /\ wizard.street \in StreetsOf(wizard.locality)

\* C29: setup completes, and can be completed, only with a property of the
\* street currently selected in the suburb currently selected, and the street
\* and property lists offered are those of the latest selection, however
\* selections overlap and in whatever order the lookups are answered.
C29_WizardFollowsSelection ==
    /\ lsConfig # NoConfig => OfSelection(lsConfig.property_id)
    /\ ~completeSetupBtnDisabled => OfSelection(selectedPropertyId)
    /\ ~wizard.streetDisabled => wizard.streets = StreetsOf(wizard.locality)
    /\ ~wizard.propertyDisabled => wizard.properties = PropertiesOf(wizard.street)

-----------------------------------------------------------------------------
(* Claim about the proxy (SpecProxy)                                        *)

\* the paths the proxy is to serve: the five endpoints, and
\* /properties/<digits>.json
Permitted(path) ==
    \/ \E i \in 1..Len(ALLOWED_PATHS) : path = ALLOWED_PATHS[i]
    \/ matchPropertyPath(path)

\* C25: the proxy makes an upstream request only for a path that is one of
\* the five allowed endpoints or has the form /properties/<digits>.json; every
\* other path is answered 403 'Not allowed' with no upstream request, and an
\* OPTIONS request is answered by the proxy itself.
C25_OnlyAllowedForwarded ==
    proxy # ProxyIdle =>
       /\ proxy.forwarded => Permitted(proxy.path)
       /\ (proxy.method # "OPTIONS" /\ ~Permitted(proxy.path))
             => /\ proxy.status = 403
                /\ proxy.error = "Not allowed"
                /\ ~proxy.forwarded
       /\ proxy.method = "OPTIONS" => ~proxy.forwarded

====
